---- MODULE Spec2Model ----
(***************************************************************************)
(* A model of utaten_epub (src/src/main.rs): the batch run of main over    *)
(* the lines of the `songs` file, the search and download of each lyric,   *)
(* the pruning of the fetched page, the lyrics/ directory and the final    *)
(* pandoc invocation.                                                      *)
(*                                                                         *)
(* Strings are sequences of one-character strings, so that str::replace,   *)
(* str::split_once and format! are computed, not assumed.                  *)
(***************************************************************************)
EXTENDS Integers, Sequences, FiniteSets, TLC

\* ------------------------------------------------------------------ bounds
\* Longest line of the songs file, in characters.
MaxQueryLen == 6
\* Most lines in the songs file.
MaxSongs == 2
\* Most copies of an unwanted sub-region a fetched page holds.
MaxDup == 2
\* Most times the program is started on the same directory.
MaxRuns == 2
\* Largest exit code pandoc returns.
MaxExit == 2

\* ----------------------------------------------------------------- strings
Chars == {"A", " ", "/"}

RECURSIVE StringsOfLen(_)
StringsOfLen(n) ==
    IF n = 0 THEN {<<>>}
    ELSE {<<c>> \o s : c \in Chars, s \in StringsOfLen(n - 1)}

AllQueries == UNION {StringsOfLen(n) : n \in 0..MaxQueryLen}

IsPrefix(p, s) == Len(p) <= Len(s) /\ SubSeq(s, 1, Len(p)) = p

\* Whether pat occurs in s at some position (overlaps counted by Occurrences).
Occurrences(s, pat) ==
    Cardinality({k \in 1..(Len(s) - Len(pat) + 1) : SubSeq(s, k, k + Len(pat) - 1) = pat})

\* str::replace: every non-overlapping match of `from`, left to right.
RECURSIVE Replace(_, _, _)
Replace(s, from, to) ==
    IF Len(s) < Len(from) THEN s
    ELSE IF IsPrefix(from, s)
         THEN to \o Replace(SubSeq(s, Len(from) + 1, Len(s)), from, to)
         ELSE <<Head(s)>> \o Replace(Tail(s), from, to)

\* str::split_once(ch).unwrap_or((s, "")): split at the first ch.
SplitOnceOr(s, ch) ==
    LET hits == {k \in 1..Len(s) : s[k] = ch}
    IN  IF hits = {} THEN <<s, <<>>>>
        ELSE LET k == CHOOSE x \in hits : \A y \in hits : x <= y
             IN  <<SubSeq(s, 1, k - 1), SubSeq(s, k + 1, Len(s))>>

Sep == <<" ", "/", " ">>
Dash == <<" ", "-", " ">>
LyricsDir == <<"l", "y", "r", "i", "c", "s", "/">>
DotHtml == <<".", "h", "t", "m", "l">>
Origin == <<"https://utaten.com">>

\* A plausible slip: only the slash is replaced, the blanks around it stay.
lyric_filename_slash_only(song) ==
    LyricsDir \o Replace(song, <<"/">>, <<"-">>) \o DotHtml

\* fn lyric_filename
lyric_filename(song) ==
    LyricsDir \o Replace(song, Sep, Dash) \o DotHtml

\* The (title, artist) pair search_song sends as query parameters.
search_params(song) ==
    LET p == SplitOnceOr(song, "/")
    IN  [title |-> p[1], artist |-> p[2]]

\* ------------------------------------------------------------- the DOM tree
\* A parsed document (kuchiki): nodes are numbered, node[n] holds the node's
\* data and kids[n] its children in order. A detached node is in no kids
\* list. The document root is node 1.
Root == 1
NoHref == <<>>

El(tag, class) == [tag |-> tag, class |-> class, href |-> NoHref, text |-> ""]
Anchor(href) == [tag |-> "a", class |-> "", href |-> href, text |-> ""]
TextNode(t) == [tag |-> "#text", class |-> "", href |-> NoHref, text |-> t]

RECURSIVE Preorder(_, _)
RECURSIVE PreorderAll(_, _)
\* inclusive_descendants: the node and its descendants in document order.
Preorder(doc, n) == <<n>> \o PreorderAll(doc, doc.kids[n])
PreorderAll(doc, ks) ==
    IF ks = <<>> THEN <<>>
    ELSE Preorder(doc, Head(ks)) \o PreorderAll(doc, Tail(ks))

ParentOf(doc, n) ==
    LET ps == {p \in DOMAIN doc.kids : \E k \in DOMAIN doc.kids[p] : doc.kids[p][k] = n}
    IN  IF ps = {} THEN 0 ELSE CHOOSE p \in ps : TRUE

RECURSIVE HasAncestorOfClass(_, _, _)
HasAncestorOfClass(doc, n, class) ==
    LET p == ParentOf(doc, n)
    IN  IF p = 0 THEN FALSE
        ELSE doc.node[p].class = class \/ HasAncestorOfClass(doc, p, class)

\* node.select(".class"): the matches under (and including) scope, in order.
SelectClass(doc, scope, class) ==
    SelectSeq(Preorder(doc, scope), LAMBDA n : doc.node[n].class = class)

\* node.select("tag")
SelectTag(doc, scope, tag) ==
    SelectSeq(Preorder(doc, scope), LAMBDA n : doc.node[n].tag = tag)

\* node.select(".class tag"): descendant combinator.
SelectTagUnderClass(doc, scope, class, tag) ==
    SelectSeq(Preorder(doc, scope),
              LAMBDA n : doc.node[n].tag = tag /\ HasAncestorOfClass(doc, n, class))

\* NodeRef::detach
Detach(doc, n) ==
    [doc EXCEPT !.kids = [p \in DOMAIN doc.kids |->
                             SelectSeq(doc.kids[p], LAMBDA k : k # n)]]

\* NodeRef::append: the child leaves its old parent first.
AppendChild(doc, parent, child) ==
    LET d == Detach(doc, child)
    IN  [d EXCEPT !.kids[parent] = Append(@, child)]

NodeCount(doc) == Cardinality(DOMAIN doc.node)

\* NodeRef::new_element: a fresh, parentless node (its id is the new count).
NewElement(doc, n) ==
    LET id == NodeCount(doc) + 1
    IN  [node |-> [i \in 1..id |-> IF i < id THEN doc.node[i] ELSE n],
         kids |-> [i \in 1..id |-> IF i < id THEN doc.kids[i] ELSE <<>>]]

RECURSIVE DetachAll(_, _)
DetachAll(doc, ns) ==
    IF ns = <<>> THEN doc ELSE DetachAll(Detach(doc, Head(ns)), Tail(ns))

\* Serialization: an element is its open tag, its children, its close tag.
CloseTag(n) == [tag |-> "/", class |-> n.tag, href |-> NoHref, text |-> ""]

RECURSIVE Serialize(_, _)
RECURSIVE SerializeAll(_, _)
Serialize(doc, n) ==
    IF doc.node[n].tag = "#text" THEN <<doc.node[n]>>
    ELSE <<doc.node[n]>> \o SerializeAll(doc, doc.kids[n]) \o <<CloseTag(doc.node[n])>>
SerializeAll(doc, ks) ==
    IF ks = <<>> THEN <<>>
    ELSE Serialize(doc, Head(ks)) \o SerializeAll(doc, Tail(ks))

\* ------------------------------------------------------------ fetched pages
\* The pages the site may serve, built from a few parameters: whether each
\* region is there, how many unwanted sub-regions it holds, and the links of
\* the metadata region (inside .newLyricWork, and loose beside it).
RelHref1 == <<"/", "artist/1">>
RelHref2 == <<"/", "lyric/2">>
AbsHref == <<"https://utaten.com", "/", "artist/3">>

IsPathRelative(href) == href # NoHref /\ href[1] = "/"

Add(flat, parent, n) == Append(flat, [n |-> n, parent |-> parent])

RECURSIVE AddCopies(_, _, _, _, _)
AddCopies(flat, parent, k, el, child) ==
    IF k = 0 THEN flat
    ELSE LET id == Len(flat) + 1
         IN  AddCopies(Add(Add(flat, parent, el), id, child), parent, k - 1, el, child)

RECURSIVE AddLinks(_, _, _)
AddLinks(flat, parent, hrefs) ==
    IF hrefs = <<>> THEN flat
    ELSE AddLinks(Add(flat, parent, Anchor(Head(hrefs))), parent, Tail(hrefs))

TitleRegion(flat, parent, p) ==
    LET t == Len(flat) + 1
        g == Add(Add(flat, parent, El("h2", "newLyricTitle")), t, TextNode("title"))
    IN  AddCopies(g, t, p.after, El("span", "newLyricTitle_afterTxt"), TextNode("suffix"))

DataRegion(flat, parent, p) ==
    LET d == Len(flat) + 1
        w == d + 1
        g == Add(Add(flat, parent, El("div", "lyricData")), d, El("div", "newLyricWork"))
        h == AddLinks(g, w, p.work)
        i == AddCopies(h, w, p.footer, El("div", "newLyricWorkFooter"), TextNode("tags"))
    IN  AddLinks(i, d, p.loose)

BodyRegion(flat, parent, p) ==
    LET b == Len(flat) + 1
        g == Add(Add(flat, parent, El("div", "lyricBody")), b, TextNode("lyric"))
    IN  AddCopies(g, b, p.romaji, El("div", "romaji"), TextNode("romaji"))

MkDoc(flat) ==
    [node |-> [i \in 1..Len(flat) |-> flat[i].n],
     kids |-> [i \in 1..Len(flat) |->
                  SelectSeq([j \in 1..Len(flat) |-> j], LAMBDA j : flat[j].parent = i)]]

PageDoc(p) ==
    LET f1 == <<[n |-> El("html", ""), parent |-> 0]>>
        f2 == Add(f1, 1, IF p.article THEN El("article", "") ELSE El("main", ""))
        f3 == Add(f2, 2, TextNode("nav"))
        f4 == Add(f3, 2, El("div", "wrap"))
        f5 == IF p.title THEN TitleRegion(f4, 4, p) ELSE f4
        f6 == IF p.data THEN DataRegion(f5, 4, p) ELSE f5
        f7 == IF p.body THEN BodyRegion(f6, 4, p) ELSE f6
    IN  MkDoc(f7)

BasePage ==
    [title |-> TRUE, after |-> 1, data |-> TRUE, footer |-> 1,
     work |-> <<RelHref1, RelHref2>>, loose |-> <<>>,
     body |-> TRUE, romaji |-> 1, article |-> TRUE]

PageSet ==
    {[BasePage EXCEPT !.after = k] : k \in 0..MaxDup}
    \cup {[BasePage EXCEPT !.footer = k] : k \in 0..MaxDup}
    \cup {[BasePage EXCEPT !.romaji = k] : k \in 0..MaxDup}
    \cup {[BasePage EXCEPT !.title = FALSE], [BasePage EXCEPT !.data = FALSE],
          [BasePage EXCEPT !.body = FALSE], [BasePage EXCEPT !.article = FALSE]}
    \cup {[BasePage EXCEPT !.work = w] : w \in {<<>>, <<AbsHref>>, <<NoHref, RelHref1>>}}
    \cup {[BasePage EXCEPT !.loose = <<RelHref1>>]}

\* ---------------------------------------------------------------- Extractor
\* The result of a step that may panic (Option::unwrap on None).
Panicked(doc) == [ok |-> FALSE, doc |-> doc, node |-> 0]

\* The pattern the three extract_* functions share:
\*   document.select(region).next().unwrap(), then
\*   region.select(unwanted).next().unwrap().detach().
ExtractRegion(doc, regionClass, unwantedClass) ==
    LET regions == SelectClass(doc, Root, regionClass)
    IN  IF regions = <<>> THEN Panicked(doc)
        ELSE LET r == Head(regions)
                 subs == SelectClass(doc, r, unwantedClass)
             IN  IF subs = <<>> THEN Panicked(doc)
                 ELSE [ok |-> TRUE, doc |-> Detach(doc, Head(subs)), node |-> r]

\* fn extract_lyric_title
extract_lyric_title(doc) ==
    ExtractRegion(doc, "newLyricTitle", "newLyricTitle_afterTxt")

\* The closure of extract_lyric_data: an href, when there is one, gets the
\* origin in front of it.
RewriteHref(href) == IF href = NoHref THEN href ELSE Origin \o href

RECURSIVE RewriteLinks(_, _)
RewriteLinks(doc, links) ==
    IF links = <<>> THEN doc
    ELSE RewriteLinks([doc EXCEPT !.node[Head(links)].href = RewriteHref(@)], Tail(links))

\* fn extract_lyric_data
extract_lyric_data(doc) ==
    LET r == ExtractRegion(doc, "lyricData", "newLyricWorkFooter")
    IN  IF ~r.ok THEN r
        ELSE [r EXCEPT !.doc =
                 RewriteLinks(r.doc, SelectTagUnderClass(r.doc, r.node, "newLyricWork", "a"))]

\* fn extract_lyric_body
extract_lyric_body(doc) ==
    ExtractRegion(doc, "lyricBody", "romaji")

PageBreak == El("div", "page-break")

\* Lines 104-118 of download_lyric without line 102: the article keeps the
\* children it had.
Reassemble_KeepChildren(doc, article, title, data, body) ==
    LET d2 == AppendChild(doc, article, title)
        d3 == AppendChild(d2, article, data)
        d4 == AppendChild(d3, article, body)
        d5 == NewElement(d4, PageBreak)
    IN  AppendChild(d5, article, NodeCount(d5))

\* Lines 102-118 of download_lyric: empty the article, then append the three
\* fragments and a new page-break element.
Reassemble(doc, article, title, data, body) ==
    LET d1 == DetachAll(doc, doc.kids[article])
        d2 == AppendChild(d1, article, title)
        d3 == AppendChild(d2, article, data)
        d4 == AppendChild(d3, article, body)
        d5 == NewElement(d4, PageBreak)
    IN  AppendChild(d5, article, NodeCount(d5))

\* Lines 95-121 of download_lyric, from the parsed page to the bytes to write.
\* `why` says which unwrap panicked: "region" for a missing title, metadata or
\* body region, "other" for a missing unwanted sub-region or article.
BuildLyric(page) ==
    LET parsed == PageDoc(page)
        rt == extract_lyric_title(parsed)
        rd == extract_lyric_data(rt.doc)
        rb == extract_lyric_body(rd.doc)
        Fail(class, res) ==
            [ok |-> FALSE, html |-> <<>>,
             why |-> IF SelectClass(res.doc, Root, class) = <<>> THEN "region" ELSE "other"]
    IN  IF ~rt.ok THEN Fail("newLyricTitle", rt)
        ELSE IF ~rd.ok THEN Fail("lyricData", rd)
        ELSE IF ~rb.ok THEN Fail("lyricBody", rb)
        ELSE LET arts == SelectTag(rb.doc, Root, "article")
             IN  IF arts = <<>> THEN [ok |-> FALSE, html |-> <<>>, why |-> "other"]
                 ELSE [ok |-> TRUE,
                       html |-> Serialize(Reassemble(rb.doc, Head(arts),
                                                     rt.node, rd.node, rb.node),
                                          Head(arts)),
                       why |-> ""]

\* ------------------------------------------------------------ program state
VARIABLES
    songsExists,  \* whether the `songs` file is there
    songs,        \* its lines, each a Result<String>: [ok, text]
    fs,           \* the files under lyrics/: file name -> content (its tokens)
    run,          \* how many times the program has been started
    pc,           \* where main is: start, line, search, download, writing,
                  \* filter, compile, exited, crashed
    idx,          \* the line the iterator of main is at
    filename,     \* main's `filename` (line 25) for the current line
    url,          \* the address search_song returned for the current line
    html,         \* download_lyric's serialized article, being written
    results,      \* the Vec<Option<String>> that collect() builds
    manifest,     \* `songs` after filter_map: the files handed to pandoc
    compiler,     \* how the pandoc invocation ended (NotInvoked before it)
    exitCode,     \* the exit code of the process (-1 while it runs)
    outcome,      \* history: how each processed line ended
    netlog,       \* history: the network requests of this run
    wrote,        \* history: the completed fs::write calls of this run
    srcPage,      \* history: the page each file written in this run came from
    kept,         \* history: the content each skipped file had when skipped
    fsAtStart     \* history: lyrics/ as it was when this run started

vars == <<songsExists, songs, fs, run, pc, idx, filename, url, html, results,
          manifest, compiler, exitCode, outcome, netlog, wrote, srcPage, kept,
          fsAtStart>>

Line(q) == [ok |-> TRUE, text |-> q]
\* A line that is not valid UTF-8: io::Lines yields Err for it.
BadLine == [ok |-> FALSE, text |-> <<>>]

None == [some |-> FALSE, name |-> <<>>]
Some(name) == [some |-> TRUE, name |-> name]

\* The song lists of the batch runs: a title, a title with an artist, and a
\* title whose file name is that of the second.
QuerySet ==
    {<<"A">>, <<"A", " ", "/", " ", "B">>, <<"A", " ", "-", " ", "B">>}

SeqsUpTo(S, n) == UNION {[1..k -> S] : k \in 0..n}

\* A file that was in lyrics/ before the first run.
OldFile == <<TextNode("earlier download")>>

\* fs::write and Path::exists see only lyrics/ itself: a name with a further
\* "/" lies in a directory that create_dir_all("lyrics") did not make.
InLyricsDir(name) ==
    \A k \in (Len(LyricsDir) + 1)..Len(name) : name[k] # "/"

NamesOf(lines) ==
    {lyric_filename(lines[i].text) : i \in {j \in DOMAIN lines : lines[j].ok}}

\* Path::exists, when it wrongly answers no.
Exists_Never(files, name) == FALSE

\* Path::new(&filename).exists()
Exists(files, name) == name \in DOMAIN files

WriteFile(files, name, content) ==
    [n \in DOMAIN files \cup {name} |-> IF n = name THEN content ELSE files[n]]

\* What the site answers to a search: the hrefs of the result links, in order.
ResultPath1 == <<"/", "lyric/1">>
ResultPath2 == <<"/", "lyric/2">>
SearchResponses == {<<>>, <<ResultPath1>>, <<ResultPath2, ResultPath1>>, <<NoHref>>}

\* pandoc has not been invoked (yet).
NotInvoked == [kind |-> "none", code |-> 0]

\* How the pandoc child process ends: it cannot be started, it exits with a
\* code, or it is ended by a signal (ExitStatus::code() is None).
CompilerOutcomes ==
    {[kind |-> "spawn_error", code |-> 0], [kind |-> "signal", code |-> 0]}
    \cup {[kind |-> "exit", code |-> c] : c \in 0..MaxExit}

\* status.code().unwrap_or(0)
exit_code_of(status) == IF status.kind = "exit" THEN status.code ELSE 0

\* filter_map that reverses the order.
RECURSIVE filter_map_reversed(_)
filter_map_reversed(rs) ==
    IF rs = <<>> THEN <<>>
    ELSE filter_map_reversed(Tail(rs)) \o (IF Head(rs).some THEN <<Head(rs).name>> ELSE <<>>)

\* songs.into_iter().filter_map(|x| x).collect()
RECURSIVE filter_map(_)
filter_map(rs) ==
    IF rs = <<>> THEN <<>>
    ELSE (IF Head(rs).some THEN <<Head(rs).name>> ELSE <<>>) \o filter_map(Tail(rs))

RunStart ==
    /\ pc = "start" /\ idx = 1 /\ filename = <<>> /\ url = <<>> /\ html = <<>>
    /\ results = <<>> /\ manifest = <<>> /\ compiler = NotInvoked /\ exitCode = -1
    /\ outcome = <<>> /\ netlog = <<>> /\ wrote = {} /\ kept = <<>>
    /\ srcPage = <<>>

InitWith(lineSets) ==
    /\ songsExists \in BOOLEAN
    /\ songs \in lineSets
    /\ songsExists \/ songs = <<>>
    /\ fs \in UNION {[D -> {OldFile}] :
                        D \in SUBSET {n \in NamesOf(songs) : InLyricsDir(n)}}
    /\ fsAtStart = fs
    /\ run = 1
    /\ RunStart

\* A batch: up to MaxSongs lines.
Init == InitWith(SeqsUpTo({Line(q) : q \in QuerySet} \cup {BadLine}, MaxSongs))

\* One line, over every string of up to MaxQueryLen characters.
InitFn == InitWith({<<Line(q)>> : q \in AllQueries})

Exit(code) == pc' = "exited" /\ exitCode' = code

\* The closure of main returns for the current line: collect() goes on.
Yield(res, how) ==
    /\ results' = Append(results, res)
    /\ outcome' = Append(outcome, how)
    /\ idx' = idx + 1
    /\ pc' = "line"

\* The run ends at the current line (an Err out of main, or a panic).
Abort(how, code) ==
    /\ outcome' = Append(outcome, how)
    /\ Exit(code)
    /\ UNCHANGED <<results, idx>>

\* main, lines 10-22: the directory, the songs file.
Start ==
    /\ pc = "start"
    /\ IF songsExists
       THEN pc' = "line" /\ UNCHANGED exitCode
       ELSE Exit(1)
    /\ UNCHANGED <<songsExists, songs, fs, run, idx, filename, url, html, results,
                   manifest, compiler, outcome, netlog, wrote, srcPage, kept,
                   fsAtStart>>

\* main, lines 23-29 and 37-41: the next line, its file name, the skip.
NextLine ==
    /\ pc = "line"
    /\ IF idx > Len(songs)
       THEN /\ pc' = "filter"
            /\ UNCHANGED <<idx, filename, results, exitCode, outcome, kept>>
       ELSE IF ~songs[idx].ok
       THEN /\ Abort("Fault", 1)
            /\ UNCHANGED <<filename, kept>>
       ELSE LET name == lyric_filename(songs[idx].text)
            IN  /\ filename' = name
                /\ IF Exists(fs, name)
                   THEN /\ Yield(Some(name), "Skipped")
                        /\ kept' = WriteFile(kept, name, fs[name])
                        /\ UNCHANGED exitCode
                   ELSE /\ pc' = "search"
                        /\ UNCHANGED <<idx, results, exitCode, outcome, kept>>
    /\ UNCHANGED <<songsExists, songs, fs, run, url, html, manifest, compiler,
                   netlog, wrote, srcPage, fsAtStart>>

\* fn search_song (and main, lines 30, 33-35)
SearchSong ==
    /\ pc = "search"
    /\ LET params == search_params(songs[idx].text)
       IN  netlog' = Append(netlog, [i |-> idx, kind |-> "search",
                                     title |-> params.title, artist |-> params.artist])
    /\ \/ \* the request fails: `?` carries the error out of main
          /\ Abort("Fault", 1)
          /\ UNCHANGED url
       \/ \E links \in SearchResponses :
             IF links = <<>>
             THEN /\ Yield(None, "NotFound")
                  /\ UNCHANGED <<url, exitCode>>
             ELSE IF Head(links) = NoHref
             THEN /\ Abort("Panic", 101)
                  /\ UNCHANGED url
             ELSE /\ url' = Origin \o Head(links)
                  /\ pc' = "download"
                  /\ UNCHANGED <<idx, results, exitCode, outcome>>
    /\ UNCHANGED <<songsExists, songs, fs, run, filename, html, manifest, compiler,
                   wrote, srcPage, kept, fsAtStart>>

\* fn download_lyric, lines 92-124: the page, the extraction, File::create.
DownloadLyric ==
    /\ pc = "download"
    /\ netlog' = Append(netlog, [i |-> idx, kind |-> "page",
                                 title |-> <<>>, artist |-> <<>>])
    /\ \/ /\ Abort("Fault", 1)
          /\ UNCHANGED <<fs, html, srcPage>>
       \/ \E page \in PageSet :
             LET built == BuildLyric(page)
                 name == lyric_filename(songs[idx].text)
             IN  IF ~built.ok
                 THEN /\ Abort(IF built.why = "region" THEN "MissingRegion" ELSE "Panic",
                               101)
                      /\ UNCHANGED <<fs, html, srcPage>>
                 ELSE IF ~InLyricsDir(name)
                 THEN /\ Abort("Fault", 1)
                      /\ UNCHANGED <<fs, html, srcPage>>
                 ELSE /\ fs' = WriteFile(fs, name, <<>>)
                      /\ html' = built.html
                      /\ srcPage' = WriteFile(srcPage, name, page)
                      /\ pc' = "writing"
                      /\ UNCHANGED <<idx, results, exitCode, outcome>>
    /\ UNCHANGED <<songsExists, songs, run, filename, url, manifest, compiler,
                   wrote, kept, fsAtStart>>

\* fn download_lyric, lines 124-126 (and main, line 32): the bytes are in the
\* file, the name goes back to main.
FinishWrite ==
    /\ pc = "writing"
    /\ LET name == lyric_filename(songs[idx].text)
       IN  /\ fs' = WriteFile(fs, name, html)
           /\ wrote' = wrote \cup {[i |-> idx, name |-> name, checked |-> filename]}
           /\ Yield(Some(name), "Persisted")
    /\ html' = <<>>
    /\ url' = <<>>
    /\ UNCHANGED <<songsExists, songs, run, filename, manifest, compiler, exitCode,
                   netlog, srcPage, kept, fsAtStart>>

\* main, lines 43-48
Filter ==
    /\ pc = "filter"
    /\ manifest' = filter_map(results)
    /\ IF manifest' = <<>> THEN Exit(1) ELSE pc' = "compile" /\ UNCHANGED exitCode
    /\ UNCHANGED <<songsExists, songs, fs, run, idx, filename, url, html, results,
                   compiler, outcome, netlog, wrote, srcPage, kept, fsAtStart>>

\* main, lines 50-63: pandoc, and its status as the exit code.
Compile ==
    /\ pc = "compile"
    /\ \E status \in CompilerOutcomes :
          /\ compiler' = status
          /\ Exit(IF status.kind = "spawn_error" THEN 1 ELSE exit_code_of(status))
    /\ UNCHANGED <<songsExists, songs, fs, run, idx, filename, url, html, results,
                   manifest, outcome, netlog, wrote, srcPage, kept, fsAtStart>>

\* The operator starts the program again, on the same songs file and the
\* lyrics/ directory as the last run left it.
Rerun ==
    /\ pc \in {"exited", "crashed"}
    /\ run < MaxRuns
    /\ run' = run + 1
    /\ fsAtStart' = fs
    /\ pc' = "start" /\ idx' = 1 /\ filename' = <<>> /\ url' = <<>> /\ html' = <<>>
    /\ results' = <<>> /\ manifest' = <<>> /\ compiler' = NotInvoked /\ exitCode' = -1
    /\ outcome' = <<>> /\ netlog' = <<>> /\ wrote' = {} /\ kept' = <<>>
    /\ srcPage' = <<>>
    /\ UNCHANGED <<songsExists, songs, fs>>

\* The process is killed (or the machine stops) wherever main is.
Crash ==
    /\ pc \in {"line", "search", "download", "writing", "filter", "compile"}
    /\ pc' = "crashed"
    /\ UNCHANGED <<songsExists, songs, fs, run, idx, filename, url, html, results,
                   manifest, compiler, exitCode, outcome, netlog, wrote, srcPage,
                   kept, fsAtStart>>

Next ==
    \/ Start
    \/ NextLine
    \/ SearchSong
    \/ DownloadLyric
    \/ FinishWrite
    \/ Filter
    \/ Compile
    \/ Rerun

NextCrash == Next \/ Crash

Spec == Init /\ [][Next]_vars

SpecFn == InitFn /\ [][Next]_vars

SpecCrash == Init /\ [][NextCrash]_vars

\* ------------------------------------------------- reading a written file
\* The index of the token that ends the element (or text) starting at i.
RECURSIVE ScanEnd(_, _, _)
ScanEnd(toks, j, depth) ==
    IF j > Len(toks) THEN j
    ELSE IF toks[j].tag = "/"
         THEN IF depth = 1 THEN j ELSE ScanEnd(toks, j + 1, depth - 1)
    ELSE IF toks[j].tag = "#text" THEN ScanEnd(toks, j + 1, depth)
    ELSE ScanEnd(toks, j + 1, depth + 1)

ElementEnd(toks, i) ==
    IF toks[i].tag \in {"#text", "/"} THEN i ELSE ScanEnd(toks, i + 1, 1)

\* A whole document: one element, opened by the first token and closed by the last.
IsDocument(toks) ==
    /\ Len(toks) >= 2
    /\ toks[1].tag \notin {"#text", "/"}
    /\ ElementEnd(toks, 1) = Len(toks)

\* The children of the document's element, each as its own token sequence.
RECURSIVE ChildrenFrom(_, _)
ChildrenFrom(toks, i) ==
    IF i >= Len(toks) THEN <<>>
    ELSE LET e == ElementEnd(toks, i)
         IN  <<SubSeq(toks, i, e)>> \o ChildrenFrom(toks, e + 1)

ChildrenOfRoot(toks) == ChildrenFrom(toks, 2)

CountClass(toks, class) ==
    Cardinality({k \in DOMAIN toks : toks[k].class = class /\ toks[k].tag # "/"})

\* toks without the elements of the given class (and all they contain).
RECURSIVE WithoutClass(_, _)
WithoutClass(toks, class) ==
    IF toks = <<>> THEN <<>>
    ELSE IF Head(toks).class = class /\ Head(toks).tag # "/"
         THEN WithoutClass(SubSeq(toks, ElementEnd(toks, 1) + 1, Len(toks)), class)
         ELSE <<Head(toks)>> \o WithoutClass(Tail(toks), class)

\* The tokens with the hrefs left out: what is there, whatever the links say.
Shape(toks) == [k \in DOMAIN toks |-> [toks[k] EXCEPT !.href = NoHref]]

LinksOf(toks) == SelectSeq(toks, LAMBDA t : t.tag = "a" /\ t.href # NoHref)

\* The region of the given class as the site served it.
SourceRegion(page, class) ==
    LET served == PageDoc(page)
    IN  Serialize(served, Head(SelectClass(served, Root, class)))

InvokedCompiler == compiler # NotInvoked

NameOfLine(i) == lyric_filename(songs[i].text)

\* The file of line i was there when main came to it: it was there when the
\* run started, or an earlier line of this run wrote it.
ExistedWhenProcessed(i) ==
    \/ NameOfLine(i) \in DOMAIN fsAtStart
    \/ \E w \in wrote : w.i < i /\ w.name = NameOfLine(i)

InManifest(name) == \E k \in DOMAIN manifest : manifest[k] = name

\* ------------------------------------------------------------------ claims

\* C1: a line whose lyric file exists when main comes to it causes no search
\* request and no page request, leaves the file's content as it was, and has
\* its file name in the manifest; so a run started with the file of every
\* line present makes no network request and leaves every file identical.
C1_SkipNeverFetches ==
    /\ \A i \in DOMAIN outcome :
          (songs[i].ok /\ ExistedWhenProcessed(i)) =>
              /\ outcome[i] = "Skipped"
              /\ \A k \in DOMAIN netlog : netlog[k].i # i
              /\ results[i] = Some(NameOfLine(i))
              /\ NameOfLine(i) \in DOMAIN fs
              /\ NameOfLine(i) \in DOMAIN kept
              /\ fs[NameOfLine(i)] = kept[NameOfLine(i)]
              /\ NameOfLine(i) \in DOMAIN fsAtStart =>
                     fs[NameOfLine(i)] = fsAtStart[NameOfLine(i)]
              /\ (pc = "compile" \/ InvokedCompiler) => InManifest(NameOfLine(i))
    /\ (\A i \in DOMAIN songs : songs[i].ok /\ NameOfLine(i) \in DOMAIN fsAtStart) =>
          /\ netlog = <<>>
          /\ fs = fsAtStart

\* C1's case: a second run, over two lines whose files the first run
\* downloaded, skipped both and reached pandoc.
C1_Witness ==
    /\ run = 2 /\ pc = "exited" /\ InvokedCompiler
    /\ Len(songs) = 2 /\ outcome = <<"Skipped", "Skipped">>
    /\ NameOfLine(1) # NameOfLine(2)
    /\ \A i \in DOMAIN songs : fs[NameOfLine(i)] # OldFile
    /\ netlog = <<>>

RECURSIVE ExpectedManifest(_)
ExpectedManifest(n) ==
    IF n = 0 THEN <<>>
    ELSE ExpectedManifest(n - 1)
         \o (IF outcome[n] \in {"Skipped", "Persisted"} THEN <<NameOfLine(n)>> ELSE <<>>)

\* C2: in a run without a fault every line is processed, and the manifest
\* handed to pandoc is the file names of the lines that ended Skipped or
\* Persisted, in input order; a line whose search has no result gets no file
\* written, gives no manifest entry, and the lines after it are processed.
C2_ManifestInOrder ==
    /\ (pc \in {"filter", "compile"} \/ InvokedCompiler) =>
          /\ Len(outcome) = Len(songs)
          /\ \A i \in DOMAIN outcome : outcome[i] \in {"Skipped", "Persisted", "NotFound"}
    /\ (pc = "compile" \/ InvokedCompiler) =>
          manifest = ExpectedManifest(Len(songs))
    /\ (pc = "exited" /\ songsExists
          /\ \A i \in DOMAIN outcome : outcome[i] \in {"Skipped", "Persisted", "NotFound"}) =>
          Len(outcome) = Len(songs)
    /\ \A i \in DOMAIN outcome :
          outcome[i] = "NotFound" =>
              /\ results[i] = None
              /\ ~ \E w \in wrote : w.i = i
    /\ (pc = "exited" /\ outcome # <<>> /\ outcome[Len(outcome)] = "NotFound") =>
          Len(outcome) = Len(songs)

\* C2's case: the first line was not found, the second was downloaded, and
\* pandoc got the second alone.
C2_Witness ==
    /\ pc = "exited" /\ InvokedCompiler
    /\ outcome = <<"NotFound", "Persisted">>
    /\ manifest = <<NameOfLine(2)>>

\* The article of a written file and its four children.
IsPrunedDocument(toks) ==
    /\ IsDocument(toks)
    /\ toks[1] = El("article", "")
    /\ LET kids == ChildrenOfRoot(toks)
       IN  /\ Len(kids) = 4
           /\ kids[1][1].class = "newLyricTitle"
           /\ kids[2][1].class = "lyricData"
           /\ kids[3][1].class = "lyricBody"
           /\ kids[4] = <<PageBreak, CloseTag(PageBreak)>>

\* C8: every file the run has written is the serialization of an article
\* whose children are the title fragment, the metadata fragment, the body
\* fragment and one page-break element, in that order, and nothing the
\* article held before; a line whose page lacks a region has no file.
C8_WrittenFilesArePruned ==
    /\ \A w \in wrote : w.name \in DOMAIN fs /\ IsPrunedDocument(fs[w.name])
    /\ \A i \in DOMAIN outcome :
          outcome[i] = "MissingRegion" => NameOfLine(i) \notin DOMAIN fs

\* C8's case: one line's file was written from a page with two romanized
\* parts, and the next line's page lacked a region.
C8_Witness ==
    /\ outcome = <<"Persisted", "MissingRegion">>
    /\ \E w \in wrote : srcPage[w.name].romaji = 2 /\ fs[w.name] # <<>>

\* The file name the claim C3 gives for a query, read literally: wherever the
\* query splits as <title> / <artist> with both parts there, the name is
\* lyrics/<title> - <artist>.html; without " / " it is lyrics/<query>.html.
NameAsClaimed(q, name) ==
    /\ Occurrences(q, Sep) = 0 => name = LyricsDir \o q \o DotHtml
    /\ \A k \in 2..(Len(q) - 3) :
          SubSeq(q, k, k + 2) = Sep =>
              name = LyricsDir \o SubSeq(q, 1, k - 1) \o Dash
                         \o SubSeq(q, k + 3, Len(q)) \o DotHtml

\* The same for the queries that hold " / " once only.
NameOfOneSeparator(q, name) ==
    /\ Occurrences(q, Sep) = 0 => name = LyricsDir \o q \o DotHtml
    /\ Occurrences(q, Sep) = 1 => NameAsClaimed(q, name)

\* Every file name the program has computed: main's for the existence check
\* (line 25), download_lyric's for the write (line 123), those it collected.
NamesComputed(Good(_, _)) ==
    /\ pc \in {"search", "download", "writing"} => Good(songs[idx].text, filename)
    /\ \A i \in DOMAIN results :
          results[i].some => Good(songs[i].text, results[i].name)
    /\ \A w \in wrote :
          /\ Good(songs[w.i].text, w.name)
          /\ w.name = w.checked
          /\ w.name \in DOMAIN fs

\* C3, as stated: a query <title> / <artist> with both parts present maps to
\* lyrics/<title> - <artist>.html and a title alone to lyrics/<title>.html;
\* the name checked for existence is the name written to.
C3_Claim == NamesComputed(NameAsClaimed)

\* C3, amended: the same for a query in which " / " occurs exactly once (and
\* for a query without it); the name checked for existence is the name
\* written to.
C3_FilenameOfQuery == NamesComputed(NameOfOneSeparator)

\* C3's case: the query "A / A" was downloaded and written.
C3_Witness ==
    /\ songs = <<Line(<<"A", " ", "/", " ", "A">>)>>
    /\ outcome = <<"Persisted">>
    /\ \E w \in wrote : w.name = LyricsDir \o <<"A", " ", "-", " ", "A">> \o DotHtml

\* C10: search_song sends a non-empty artist exactly when lyric_filename
\* gives a <title> - <artist> name, the title and artist sent are those of
\* that name (no blanks around them), and a query without a separator is
\* searched with an empty artist and its whole text as the title.
C10_Claim ==
    \A k \in DOMAIN netlog :
        netlog[k].kind = "search" =>
            LET q == songs[netlog[k].i].text
                sent == netlog[k]
            IN  /\ sent.artist # <<>> <=> Occurrences(q, Sep) > 0
                /\ sent.artist # <<>> =>
                       lyric_filename(q) =
                           LyricsDir \o sent.title \o Dash \o sent.artist \o DotHtml
                /\ Occurrences(q, <<"/">>) = 0 => sent.artist = <<>> /\ sent.title = q

\* C7: when pandoc was invoked the exit code is pandoc's outcome: its code c
\* when it exits with c, and a non-zero code when it cannot be started or
\* ends without an exit code.
C7_Claim ==
    (pc = "exited" /\ InvokedCompiler) =>
        /\ compiler.kind = "exit" => exitCode = compiler.code
        /\ compiler.kind \in {"spawn_error", "signal"} => exitCode # 0

\* C6: a page that lacks one of the three regions fails that song only: the
\* run goes on to the lines after it, and pandoc is still invoked on the
\* files of the other songs.
C6_Claim ==
    (pc = "exited" /\ \E i \in DOMAIN outcome : outcome[i] = "MissingRegion") =>
        /\ Len(outcome) = Len(songs)
        /\ (\E i \in DOMAIN outcome : outcome[i] \in {"Skipped", "Persisted"}) =>
               InvokedCompiler

\* A file that holds a whole document (one written earlier counts).
IsComplete(content) == content = OldFile \/ IsDocument(content)

\* C9: after a crash at any point and a re-run on the same input, the re-run
\* skips just the songs whose files were written and fetches the rest, so
\* no file of the final manifest holds a partial document.
C9_Claim ==
    /\ (pc = "compile" \/ InvokedCompiler) =>
          \A k \in DOMAIN manifest :
              manifest[k] \in DOMAIN fs /\ IsComplete(fs[manifest[k]])
    /\ \A i \in DOMAIN outcome :
          outcome[i] = "Skipped" => IsComplete(fs[NameOfLine(i)])

\* C4: the title fragment of a written file holds no suffix-label node, its
\* metadata fragment no footer node, its body fragment no romanized-reading
\* node, however many the page held, and all else of the three regions is
\* kept.
C4_Claim ==
    \A w \in wrote :
        LET kids == ChildrenOfRoot(fs[w.name])
            page == srcPage[w.name]
            Pruned(k, region, unwanted) ==
                /\ CountClass(kids[k], unwanted) = 0
                /\ Shape(WithoutClass(kids[k], unwanted))
                       = Shape(WithoutClass(SourceRegion(page, region), unwanted))
        IN  /\ Len(kids) >= 3
            /\ Pruned(1, "newLyricTitle", "newLyricTitle_afterTxt")
            /\ Pruned(2, "lyricData", "newLyricWorkFooter")
            /\ Pruned(3, "lyricBody", "romaji")

\* C5: every link of the metadata region with a path-relative target ends as
\* the origin followed by that path, the origin put in front once; a link
\* whose target is not path-relative is unchanged.
C5_Claim ==
    \A w \in wrote :
        LET kids == ChildrenOfRoot(fs[w.name])
            out == LinksOf(WithoutClass(kids[2], "newLyricWorkFooter"))
            src == LinksOf(WithoutClass(SourceRegion(srcPage[w.name], "lyricData"),
                                        "newLyricWorkFooter"))
        IN  /\ Len(out) = Len(src)
            /\ \A k \in DOMAIN out :
                  out[k].href = IF IsPathRelative(src[k].href)
                                THEN Origin \o src[k].href
                                ELSE src[k].href

====
